---- MODULE Spec2Model ----
(***************************************************************************)
(* MSCAN driver (Old_CW_projects/Axman/Sources/mscan.c): CANinit, CANsend, *)
(* CANget, data_available, data_used running in the foreground, the        *)
(* receiver interrupt CANreceiveISR, and the MSCAN peripheral the driver   *)
(* talks to through its memory-mapped registers.                           *)
(*                                                                         *)
(* One foreground step is one C statement (one loop iteration for the      *)
(* loops).  The interrupt is taken between two foreground statements when  *)
(* the I mask is clear, RXF is set and RXFIE is set; the handler then runs *)
(* to its return before the foreground continues, while the peripheral     *)
(* keeps acting on its own.                                                *)
(***************************************************************************)
EXTENDS Integers, Sequences, FiniteSets, TLC

VARIABLES
    \* MSCAN registers
    CANCTL1_CANE, CANCTL0_INITRQ, CANCTL1_INITAK,
    cfg,                \* timing, mode and filter registers written by CANinit
    CANRIER_RXFIE,
    CANTFLG,            \* TXE2..TXE0, bit set = transmit buffer empty
    CANTBSEL,           \* the selected transmit buffer (one bit at most)
    txbuf,              \* the three transmit buffers, keyed by their flag bit
    CANRFLG_RXF, CANRXDLR_DLC, CANRXDSR,
    \* the driver's statics
    rxbuffer, data_available_flag,
    \* CPU: TRUE when the I mask is clear
    intEnabled,
    \* foreground
    pc, id, frame, txbuffer, i, message,
    sendResult,         \* <<v>>: the running/last CANsend returned v
    pollResult,         \* <<v>>: data_available returned v since the flag was last cleared
    phase,              \* where the calls made so far stand in the cycle poll, read, consume
    \* interrupt handler
    isrpc, length, isr_i,
    \* history
    frame0,             \* the caller's frame as it was when CANsend was called
    payloadReads,       \* payload indices read by the running/last CANsend
    calls,              \* number of driver calls made after CANinit
    rxlen,              \* DLC of every frame received so far, in order
    isr_old,            \* rxbuffer as it was when the handler was entered
    oob,                \* offsets beyond rxbuffer written by the handler
    unconsumed          \* handler runs since the flag was last cleared (capped)

hwvars == <<CANCTL1_CANE, CANCTL0_INITRQ, CANCTL1_INITAK, cfg, CANRIER_RXFIE>>
txvars == <<CANTFLG, CANTBSEL, txbuf>>
rxvars == <<CANRFLG_RXF, CANRXDLR_DLC, CANRXDSR, rxlen>>
mbvars == <<rxbuffer, data_available_flag, unconsumed>>
fgvars == <<pc, id, frame, txbuffer, i, message, sendResult, pollResult, phase,
            frame0, payloadReads, calls>>
isrvars == <<isrpc, length, isr_i, isr_old, oob>>
vars == <<hwvars, txvars, rxvars, mbvars, intEnabled, fgvars, isrvars>>

----------------------------------------------------------------------------
\* Bounds of the model
MaxMsgs == 2        \* frames the bus delivers in the receive-path specification
MaxCalls == 3       \* driver calls the foreground makes after CANinit
MaxSends == 1       \* CANsend calls in the transmit-path specification
MaxFrames == 1      \* frames the bus delivers outside the receive-path specification

\* Program constants
PAYLOAD_SIZE == 8
MaxDLC == 15        \* CANRXDLR_DLC is a 4-bit field
TxLenLimit == 8     \* CANsend truncates frame->length to this
AllTxEmpty == 7     \* the three TXE bits

BufIdx == 0 .. PAYLOAD_SIZE - 1
TxBits == {1, 2, 4}

\* Inputs the environment chooses from
FilterIds == {291, 2047}                \* 0x123, 0x7FF
RxIds == {291, 2047, 35}                \* 0x123, 0x7FF, 0x023
TxPayload == [k \in BufIdx |-> 161 + k]
ShortPayload == [k \in BufIdx |-> IF k < 3 THEN k + 1 ELSE 0]
TxFrames ==
    { [id |-> 291,  payload |-> TxPayload,    length |-> 0,   priority |-> 0],
      [id |-> 291,  payload |-> ShortPayload, length |-> 3,   priority |-> 0],
      [id |-> 2047, payload |-> TxPayload,    length |-> 8,   priority |-> 5],
      [id |-> 291,  payload |-> TxPayload,    length |-> 9,   priority |-> 5],
      [id |-> 2047, payload |-> TxPayload,    length |-> 255, priority |-> 255] }
OneFrame == { [id |-> 291, payload |-> TxPayload, length |-> 9, priority |-> 5] }
\* Lengths the 4-bit DLC field reports: empty, short, full and above 8
RxLengths == {0, 1, 5, PAYLOAD_SIZE, PAYLOAD_SIZE + 1, MaxDLC}
FewLengths == {3, PAYLOAD_SIZE + 1}

\* Byte k of the n-th frame on the bus: the value names the frame and the slot
RxByte(n, k) == 16 * n + k
\* The frame a mailbox byte came from (0: the initial zero fill)
Src(b) == b \div 16

----------------------------------------------------------------------------
\* Bit arithmetic on register values
RECURSIVE BitAnd(_, _)
BitAnd(a, b) ==
    IF a = 0 \/ b = 0 THEN 0
    ELSE (a % 2) * (b % 2) + 2 * BitAnd(a \div 2, b \div 2)

RECURSIVE BitOr(_, _)
BitOr(a, b) ==
    IF a = 0 THEN b
    ELSE IF b = 0 THEN a
    ELSE (IF a % 2 = 1 \/ b % 2 = 1 THEN 1 ELSE 0) + 2 * BitOr(a \div 2, b \div 2)

\* Variant: the buffer selection keeps every empty buffer's bit
LowestBit_Every(x) == x

RECURSIVE LowestBit(_)
LowestBit(x) ==
    IF x = 0 THEN 0
    ELSE IF x % 2 = 1 THEN 1
    ELSE 2 * LowestBit(x \div 2)

Word(x) == x % 65536
Not16(x) == 65535 - Word(x)

----------------------------------------------------------------------------
\* The registers CANinit programs, in the order it writes them
CfgRegs == {"CLKSRC", "PRESCALE", "TSEG1", "TSEG2", "SJW", "SAMP",
            "TIME", "LISTEN", "LOOPB", "IDAC", "IDMR0", "IDAR0"}
NumericRegs == {"TIME", "LISTEN", "LOOPB", "IDMR0", "IDAR0"}

\* (0x0007 | ~(id << 5)) as a 16-bit word
FilterMask(fid) == Word(BitOr(7, Not16(fid * 32)))
\* id << 5 as a 16-bit word
FilterAcc(fid) == Word(fid * 32)

CfgWrites(fid) ==
    << <<"CLKSRC", "MSCAN_CLK_SRC_BUS">>,
       <<"PRESCALE", "MSCAN_PRESCALE_1">>,
       <<"TSEG1", "MSCAN_TIME_SEG1_4">>,
       <<"TSEG2", "MSCAN_TIME_SEG2_3">>,
       <<"SJW", "MSCAN_SJW_4TQ">>,
       <<"SAMP", "MSCAN_SAMPLE_1">>,
       <<"TIME", 1>>,
       <<"LISTEN", 0>>,
       <<"LOOPB", 0>>,
       <<"IDAC", "MSCAN_ACC_4_16">>,
       <<"IDMR0", FilterMask(fid)>>,
       <<"IDAR0", FilterAcc(fid)>> >>

\* The pc values at which CANinit writes the n-th configuration register
CfgPc(n) == "init_cfg" \o ToString(n)
CfgPcs == { CfgPc(n) : n \in 1 .. Len(CfgWrites(0)) }

\* What stays the same in a step of CANinit
InitFrame == UNCHANGED <<txvars, rxvars, mbvars, intEnabled, frame, txbuffer, i,
                         message, sendResult, pollResult, phase, frame0, payloadReads,
                         calls, isrvars>>

\* Variant: the I mask does not hold the interrupt back
IrqPending_Unmasked == CANRFLG_RXF = 1 /\ CANRIER_RXFIE = 1

\* An interrupt request is raised and not masked
IrqPending == intEnabled /\ CANRFLG_RXF = 1 /\ CANRIER_RXFIE = 1
\* The foreground executes its next statement
FgRuns == isrpc = "idle" /\ ~IrqPending

\* Variant: the first wait loop does not wait
InitAcked_NoWait == TRUE

\* The hardware's init-mode acknowledge, as CANinit's first wait loop reads it
InitAcked == CANCTL1_INITAK = 1
\* ... and as its second wait loop reads it
InitLeft == CANCTL1_INITAK = 0

\* void CANinit(word id): CANCTL1_CANE = 1
InitEnable ==
    /\ FgRuns /\ pc = "start"
    /\ \E fid \in FilterIds : id' = fid
    /\ CANCTL1_CANE' = 1
    /\ pc' = "init_rq"
    /\ UNCHANGED <<CANCTL0_INITRQ, CANCTL1_INITAK, cfg, CANRIER_RXFIE>>
    /\ InitFrame

\* CANCTL0_INITRQ = 1
InitRequest ==
    /\ FgRuns /\ pc = "init_rq"
    /\ CANCTL0_INITRQ' = 1
    /\ pc' = "init_wait1"
    /\ UNCHANGED <<id, CANCTL1_CANE, CANCTL1_INITAK, cfg, CANRIER_RXFIE>>
    /\ InitFrame

\* while(!CANCTL1_INITAK);
InitWaitAck ==
    /\ FgRuns /\ pc = "init_wait1"
    /\ InitAcked
    /\ pc' = CfgPc(1)
    /\ UNCHANGED <<id, hwvars>>
    /\ InitFrame

\* One of the register writes between the two wait loops
InitConfig ==
    /\ FgRuns
    /\ \E n \in 1 .. Len(CfgWrites(id)) :
          /\ pc = CfgPc(n)
          /\ cfg' = [cfg EXCEPT ![CfgWrites(id)[n][1]] = CfgWrites(id)[n][2]]
          /\ pc' = IF n < Len(CfgWrites(id)) THEN CfgPc(n + 1) ELSE "init_exit"
    /\ UNCHANGED <<id, CANCTL1_CANE, CANCTL0_INITRQ, CANCTL1_INITAK, CANRIER_RXFIE>>
    /\ InitFrame

\* CANCTL0_INITRQ = 0
InitExit ==
    /\ FgRuns /\ pc = "init_exit"
    /\ CANCTL0_INITRQ' = 0
    /\ pc' = "init_wait2"
    /\ UNCHANGED <<id, CANCTL1_CANE, CANCTL1_INITAK, cfg, CANRIER_RXFIE>>
    /\ InitFrame

\* while(CANCTL1_INITAK);
InitWaitNormal ==
    /\ FgRuns /\ pc = "init_wait2"
    /\ InitLeft
    /\ pc' = "init_rxfie"
    /\ UNCHANGED <<id, hwvars>>
    /\ InitFrame

\* CANRIER_RXFIE = 1; return
InitEnableRxInt ==
    /\ FgRuns /\ pc = "init_rxfie"
    /\ CANRIER_RXFIE' = 1
    /\ pc' = "idle"
    /\ UNCHANGED <<id, CANCTL1_CANE, CANCTL0_INITRQ, CANCTL1_INITAK, cfg>>
    /\ InitFrame

CANinit ==
    \/ InitEnable \/ InitRequest \/ InitWaitAck \/ InitConfig
    \/ InitExit \/ InitWaitNormal \/ InitEnableRxInt

----------------------------------------------------------------------------
\* The foreground calls a driver function
Call(limit) == calls < limit /\ calls' = calls + 1

\* CANsend

SendFrame == UNCHANGED <<hwvars, rxvars, mbvars, intEnabled, id, message,
                         pollResult, phase, isrvars>>

\* Variant: the buffers-full test never fires
TxAllFull_Never == FALSE

\* if(CANTFLG_TXE == 0): all three transmit buffers are full
TxAllFull == BitAnd(CANTFLG, AllTxEmpty) = 0

\* A write to a register of the transmit buffer CANTBSEL selects
TxWrite(field, v) ==
    IF CANTBSEL \in TxBits THEN [txbuf EXCEPT ![CANTBSEL][field] = v] ELSE txbuf

\* Variant: the identifier is stored without the shift
TxIdValue_Unshifted(f) == <<Word(f.id), 0>>

\* (dword)frame->id << (5+16), as the 16-bit words <<CANTXIDR0:1, CANTXIDR2:3>>
\* of the 32-bit value: the high word is id << 5 cut to 16 bits, the low word 0
TxIdValue(f) == <<Word(f.id * 32), 0>>

\* Variant: the length is not truncated
Truncated_None(f) == f

\* if(frame->length > 8) frame->length = 8;
Truncated(f) ==
    IF f.length > TxLenLimit THEN [f EXCEPT !.length = TxLenLimit] ELSE f

\* Variant: the copy reads the payload one element too far
PayloadAt_Shifted(f, k) == IF k + 1 \in BufIdx THEN f.payload[k + 1] ELSE 0

\* frame->payload[k]; the payload array has PAYLOAD_SIZE elements and what
\* lies behind it is not the frame's
PayloadAt(f, k) == IF k \in BufIdx THEN f.payload[k] ELSE 0

\* *(&CANTXDSR0 + k) = v: the data segment registers are followed by the
\* length register and the priority register
TxStore(k, v) ==
    IF CANTBSEL \notin TxBits THEN txbuf
    ELSE IF k \in BufIdx THEN [txbuf EXCEPT ![CANTBSEL].dsr[k] = v]
    ELSE IF k = PAYLOAD_SIZE THEN [txbuf EXCEPT ![CANTBSEL].dlr = v % 16]
    ELSE IF k = PAYLOAD_SIZE + 1 THEN [txbuf EXCEPT ![CANTBSEL].tbpr = v]
    ELSE txbuf

\* byte CANsend(CANframe *frame): if(CANTFLG_TXE == 0) return 1;
SendCheck(frames, limit) ==
    /\ FgRuns /\ pc = "idle"
    /\ Call(limit)
    /\ \E f \in frames : frame' = f /\ frame0' = f
    /\ payloadReads' = {}
    /\ IF TxAllFull
       THEN sendResult' = <<1>> /\ pc' = "idle"
       ELSE sendResult' = <<>> /\ pc' = "send_sel"
    /\ UNCHANGED <<txvars, txbuffer, i>>
    /\ SendFrame

\* CANTBSEL = CANTFLG: the hardware keeps the lowest set bit
SendSelect ==
    /\ FgRuns /\ pc = "send_sel"
    /\ CANTBSEL' = LowestBit(CANTFLG)
    /\ pc' = "send_save"
    /\ UNCHANGED <<CANTFLG, txbuf, frame, frame0, txbuffer, i, sendResult,
                   payloadReads, calls>>
    /\ SendFrame

\* txbuffer = CANTBSEL
SendSave ==
    /\ FgRuns /\ pc = "send_save"
    /\ txbuffer' = CANTBSEL
    /\ pc' = "send_id"
    /\ UNCHANGED <<txvars, frame, frame0, i, sendResult, payloadReads, calls>>
    /\ SendFrame

\* *((dword*)((dword)(&CANTXIDR0))) = (dword)frame->id << (5+16)
SendId ==
    /\ FgRuns /\ pc = "send_id"
    /\ txbuf' = TxWrite("idr", TxIdValue(frame))
    /\ pc' = "send_trunc"
    /\ UNCHANGED <<CANTFLG, CANTBSEL, frame, frame0, txbuffer, i, sendResult,
                   payloadReads, calls>>
    /\ SendFrame

\* if(frame->length > 8) frame->length = 8;  then i = 0
SendTruncate ==
    /\ FgRuns /\ pc = "send_trunc"
    /\ frame' = Truncated(frame)
    /\ i' = 0
    /\ pc' = "send_copy"
    /\ UNCHANGED <<txvars, frame0, txbuffer, sendResult, payloadReads, calls>>
    /\ SendFrame

\* for(...; i<frame->length; i++) *(&CANTXDSR0 + i) = frame->payload[i];
SendCopy ==
    /\ FgRuns /\ pc = "send_copy"
    /\ i < frame.length
    /\ payloadReads' = payloadReads \cup {i}
    /\ txbuf' = TxStore(i, PayloadAt(frame, i))
    /\ i' = (i + 1) % 256
    /\ UNCHANGED <<CANTFLG, CANTBSEL, pc, frame, frame0, txbuffer, sendResult, calls>>
    /\ SendFrame

\* CANTXDLR = frame->length (a 4-bit field)
SendLength ==
    /\ FgRuns /\ pc = "send_copy"
    /\ ~(i < frame.length)
    /\ txbuf' = TxWrite("dlr", frame.length % 16)
    /\ pc' = "send_prio"
    /\ UNCHANGED <<CANTFLG, CANTBSEL, frame, frame0, txbuffer, i, sendResult,
                   payloadReads, calls>>
    /\ SendFrame

\* CANTXTBPR = frame->priority
SendPriority ==
    /\ FgRuns /\ pc = "send_prio"
    /\ txbuf' = TxWrite("tbpr", frame.priority)
    /\ pc' = "send_rel"
    /\ UNCHANGED <<CANTFLG, CANTBSEL, frame, frame0, txbuffer, i, sendResult,
                   payloadReads, calls>>
    /\ SendFrame

\* CANTFLG = txbuffer: writing 1 to a TXE bit clears it
SendRelease ==
    /\ FgRuns /\ pc = "send_rel"
    /\ CANTFLG' = CANTFLG - BitAnd(CANTFLG, txbuffer)
    /\ pc' = "send_wait"
    /\ UNCHANGED <<CANTBSEL, txbuf, frame, frame0, txbuffer, i, sendResult,
                   payloadReads, calls>>
    /\ SendFrame

\* Variant: the completion wait has its condition inverted
TxDone_Inverted == BitAnd(CANTFLG, txbuffer) # txbuffer

\* Variant: the completion wait does not wait
TxDone_NoWait == TRUE

\* (CANTFLG & txbuffer) == txbuffer: the released buffer's TXE bit is set again
TxDone == BitAnd(CANTFLG, txbuffer) = txbuffer

\* while((CANTFLG & txbuffer) != txbuffer);  return 0;
SendWait ==
    /\ FgRuns /\ pc = "send_wait"
    /\ TxDone
    /\ sendResult' = <<0>>
    /\ i' = 0
    /\ pc' = "idle"
    /\ UNCHANGED <<txvars, frame, frame0, txbuffer, payloadReads, calls>>
    /\ SendFrame

CANsend(frames, limit) ==
    \/ SendCheck(frames, limit) \/ SendSelect \/ SendSave \/ SendId \/ SendTruncate
    \/ SendCopy \/ SendLength \/ SendPriority \/ SendRelease \/ SendWait

----------------------------------------------------------------------------
\* CANget, data_available, data_used

\* The application's cycle: data_available until it returns 1, then CANget,
\* then data_used.  "start": no call yet, or data_available has returned 0
\* only; "polled": data_available has returned 1; "read": CANget has
\* returned after that; "consumed": data_used has cleared the flag after
\* that; "off": some call was made out of this order.
AfterPoll(ph, v) ==
    IF ph \in {"start", "consumed"} THEN (IF v = 1 THEN "polled" ELSE ph) ELSE "off"
AfterRead(ph) == IF ph = "polled" THEN "read" ELSE "off"
AfterConsume(ph) == IF ph = "read" THEN "consumed" ELSE "off"

MailboxFrame == UNCHANGED <<hwvars, txvars, rxvars, id, frame, txbuffer, sendResult,
                            frame0, payloadReads, isrvars>>

\* Variant: the I mask is left as it is
DisableInterrupts_Missing == intEnabled' = intEnabled

\* DisableInterrupts: set the I mask
DisableInterrupts == intEnabled' = FALSE
\* Variant: the I mask is not cleared
EnableInterrupts_Missing == intEnabled' = intEnabled

\* EnableInterrupts: clear the I mask
EnableInterrupts == intEnabled' = TRUE

\* void CANget(dataMessage *message): DisableInterrupts; then i = 0
GetDisable ==
    /\ FgRuns /\ pc = "idle"
    /\ Call(MaxCalls)
    /\ DisableInterrupts
    /\ i' = 0
    /\ pc' = "get_copy"
    /\ UNCHANGED <<mbvars, message, pollResult, phase>>
    /\ MailboxFrame

\* rxbuffer[k], as CANget reads it
GetByte(k) == rxbuffer[k]

\* for(...; i<PAYLOAD_SIZE; i++) *((byte*)message + i) = rxbuffer[i];
GetCopy ==
    /\ FgRuns /\ pc = "get_copy"
    /\ i < PAYLOAD_SIZE
    /\ message' = [message EXCEPT ![i] = GetByte(i)]
    /\ i' = i + 1
    /\ UNCHANGED <<mbvars, intEnabled, pc, pollResult, phase>>
    /\ UNCHANGED calls
    /\ MailboxFrame

\* Variant: reading the mailbox also marks it consumed
GetEnable_Consuming ==
    /\ FgRuns /\ pc = "get_copy"
    /\ ~(i < PAYLOAD_SIZE)
    /\ intEnabled' = TRUE
    /\ data_available_flag' = 0
    /\ i' = 0
    /\ pc' = "idle"
    /\ phase' = AfterRead(phase)
    /\ UNCHANGED <<rxbuffer, unconsumed, message, pollResult, calls>>
    /\ MailboxFrame

\* EnableInterrupts; return
GetEnable ==
    /\ FgRuns /\ pc = "get_copy"
    /\ ~(i < PAYLOAD_SIZE)
    /\ EnableInterrupts
    /\ i' = 0
    /\ pc' = "idle"
    /\ phase' = AfterRead(phase)
    /\ UNCHANGED <<mbvars, message, pollResult>>
    /\ UNCHANGED calls
    /\ MailboxFrame

CANget == GetDisable \/ GetCopy \/ GetEnable

\* The value data_available returns
DataAvailableValue == data_available_flag

\* byte data_available(void): return data_available_flag;
data_available ==
    /\ FgRuns /\ pc = "idle"
    /\ Call(MaxCalls)
    /\ pollResult' = <<DataAvailableValue>>
    /\ phase' = AfterPoll(phase, DataAvailableValue)
    /\ UNCHANGED <<mbvars, intEnabled, pc, i, message>>
    /\ MailboxFrame

\* void data_used(void): DisableInterrupts
UsedDisable ==
    /\ FgRuns /\ pc = "idle"
    /\ Call(MaxCalls)
    /\ DisableInterrupts
    /\ pc' = "used_clr"
    /\ UNCHANGED <<mbvars, i, message, pollResult, phase>>
    /\ MailboxFrame

\* Variant: the store is lost and the flag keeps its value
ClearedFlag_Kept == data_available_flag

\* The value data_used stores into the flag
ClearedFlag == 0

\* data_available_flag = 0
UsedClear ==
    /\ FgRuns /\ pc = "used_clr"
    /\ data_available_flag' = ClearedFlag
    /\ unconsumed' = 0
    /\ pollResult' = <<>>
    /\ phase' = AfterConsume(phase)
    /\ pc' = "used_ei"
    /\ UNCHANGED <<rxbuffer, intEnabled, i, message>>
    /\ UNCHANGED calls
    /\ MailboxFrame

\* EnableInterrupts; return
UsedEnable ==
    /\ FgRuns /\ pc = "used_ei"
    /\ EnableInterrupts
    /\ pc' = "idle"
    /\ UNCHANGED <<mbvars, i, message, pollResult, phase>>
    /\ UNCHANGED calls
    /\ MailboxFrame

data_used == UsedDisable \/ UsedClear \/ UsedEnable

----------------------------------------------------------------------------
\* CANreceiveISR

IsrFrame == UNCHANGED <<hwvars, txvars, intEnabled, fgvars>>

ZeroBuffer == [k \in BufIdx |-> 0]

\* The interrupt is taken: the CPU enters the handler with the I mask set
IsrEnter ==
    /\ isrpc = "idle" /\ IrqPending
    /\ isrpc' = "isr_len"
    /\ isr_old' = rxbuffer
    /\ UNCHANGED <<rxvars, mbvars, length, isr_i, oob>>
    /\ IsrFrame

\* length = CANRXDLR_DLC;  then i = 0
IsrReadLength ==
    /\ isrpc = "isr_len"
    /\ length' = CANRXDLR_DLC
    /\ isr_i' = 0
    /\ isrpc' = "isr_copy"
    /\ UNCHANGED <<rxvars, mbvars, isr_old, oob>>
    /\ IsrFrame

\* Variant: the handler fills the mailbox back to front
IsrStore_Reversed(k) ==
    IF k \in BufIdx
    THEN /\ rxbuffer' = [rxbuffer EXCEPT ![k] = CANRXDSR[PAYLOAD_SIZE - 1 - k]]
         /\ UNCHANGED <<data_available_flag, oob>>
    ELSE /\ oob' = oob \cup {k}
         /\ data_available_flag' \in {data_available_flag, 0, 1}
         /\ UNCHANGED rxbuffer

\* rxbuffer[k] = *(&CANRXDSR0 + k).  rxbuffer has PAYLOAD_SIZE elements; a
\* store behind it lands in whatever the linker placed there, which may be
\* data_available_flag, the static declared next.
IsrStore(k) ==
    IF k \in BufIdx
    THEN /\ rxbuffer' = [rxbuffer EXCEPT ![k] = CANRXDSR[k]]
         /\ UNCHANGED <<data_available_flag, oob>>
    ELSE /\ oob' = oob \cup {k}
         /\ data_available_flag' \in {data_available_flag, 0, 1}
         /\ UNCHANGED rxbuffer

\* Variant: the copy loop stops one element short
IsrMore_OneShort == isr_i + 1 < length

\* Variant: the copy loop runs one element too far
IsrMore_OffByOne == isr_i <= length

\* The copy loop's test, i<length
IsrMore == isr_i < length

\* for(...; i<length; i++) rxbuffer[i] = *(&CANRXDSR0 + i);
IsrCopy ==
    /\ isrpc = "isr_copy"
    /\ IsrMore
    /\ IsrStore(isr_i)
    /\ isr_i' = isr_i + 1
    /\ UNCHANGED <<rxvars, unconsumed, isrpc, length, isr_old>>
    /\ IsrFrame

\* timestamp = (CANTXTSRH << 8) | CANTXTSRL: read into a local never used
IsrTimestamp ==
    /\ isrpc = "isr_copy"
    /\ ~IsrMore
    /\ isrpc' = "isr_flag"
    /\ UNCHANGED <<rxvars, mbvars, length, isr_i, isr_old, oob>>
    /\ IsrFrame

\* The value the handler stores into the flag
RaisedFlag == 1

\* data_available_flag = 1
IsrSetFlag ==
    /\ isrpc = "isr_flag"
    /\ data_available_flag' = RaisedFlag
    /\ unconsumed' = IF unconsumed < 2 THEN unconsumed + 1 ELSE unconsumed
    /\ isrpc' = "isr_clr"
    /\ UNCHANGED <<rxvars, rxbuffer, length, isr_i, isr_old, oob>>
    /\ IsrFrame

\* CANRFLG = CANRFLG_RXF_MASK: writing 1 clears RXF; return from interrupt
IsrRelease ==
    /\ isrpc = "isr_clr"
    /\ CANRFLG_RXF' = 0
    /\ isrpc' = "idle"
    /\ length' = 0 /\ isr_i' = 0 /\ isr_old' = ZeroBuffer
    /\ UNCHANGED <<CANRXDLR_DLC, CANRXDSR, rxlen, mbvars, oob>>
    /\ IsrFrame

CANreceiveISR ==
    \/ IsrEnter \/ IsrReadLength \/ IsrCopy \/ IsrTimestamp
    \/ IsrSetFlag \/ IsrRelease

----------------------------------------------------------------------------
\* The MSCAN peripheral

BitXor(a, b) == a + b - 2 * BitAnd(a, b)

\* The controller is enabled and out of initialization mode
NormalMode == CANCTL1_CANE = 1 /\ CANCTL0_INITRQ = 0 /\ CANCTL1_INITAK = 0

\* The first 16-bit acceptance filter, the one CANinit programs: a frame
\* passes when its identifier, placed as ID10..ID0 in bits 15..5, agrees
\* with CANIDAR0/1 on every bit whose mask bit in CANIDMR0/1 is 0
Accepts(rid) ==
    BitAnd(BitXor(Word(rid * 32), cfg["IDAR0"]), Not16(cfg["IDMR0"])) = 0

\* The hardware acknowledges the request to enter initialization mode
HwInitAck ==
    /\ CANCTL0_INITRQ = 1 /\ CANCTL1_INITAK = 0
    /\ CANCTL1_INITAK' = 1
    /\ UNCHANGED <<CANCTL1_CANE, CANCTL0_INITRQ, cfg, CANRIER_RXFIE>>
    /\ UNCHANGED <<txvars, rxvars, mbvars, intEnabled, fgvars, isrvars>>

\* The hardware acknowledges the request to leave initialization mode
HwInitLeave ==
    /\ CANCTL0_INITRQ = 0 /\ CANCTL1_INITAK = 1
    /\ CANCTL1_INITAK' = 0
    /\ UNCHANGED <<CANCTL1_CANE, CANCTL0_INITRQ, cfg, CANRIER_RXFIE>>
    /\ UNCHANGED <<txvars, rxvars, mbvars, intEnabled, fgvars, isrvars>>

\* A transmit buffer that was released has gone out on the bus: its TXE
\* bit returns to 1
HwTxComplete ==
    /\ CANCTL1_CANE = 1 /\ CANCTL1_INITAK = 0
    /\ \E b \in TxBits :
          /\ BitAnd(CANTFLG, b) = 0
          /\ CANTFLG' = CANTFLG + b
    /\ UNCHANGED <<CANTBSEL, txbuf>>
    /\ UNCHANGED <<hwvars, rxvars, mbvars, intEnabled, fgvars, isrvars>>

\* A frame that passes the acceptance filter is placed in the receive
\* buffer while the buffer is free (RXF = 0), and RXF is set
HwReceive(lengths, limit) ==
    /\ NormalMode
    /\ CANRFLG_RXF = 0
    /\ Len(rxlen) < limit
    /\ \E rid \in RxIds, dlc \in lengths :
          /\ Accepts(rid)
          /\ CANRXDLR_DLC' = dlc
          /\ rxlen' = Append(rxlen, dlc)
    /\ CANRXDSR' = [k \in BufIdx |-> RxByte(Len(rxlen) + 1, k)]
    /\ CANRFLG_RXF' = 1
    /\ UNCHANGED <<hwvars, txvars, mbvars, intEnabled, fgvars, isrvars>>

----------------------------------------------------------------------------
EmptyTxBuffer == [idr |-> <<0, 0>>, dsr |-> ZeroBuffer, dlr |-> 0, tbpr |-> 0]
NoFrame == [id |-> 0, payload |-> ZeroBuffer, length |-> 0, priority |-> 0]

\* The state at start-up.  txflags: the TXE flags the peripheral may show
\* then (buffers other software loaded may still be waiting for the bus).
InitWith(txflags) ==
    /\ CANCTL1_CANE = 0
    /\ \E m \in {0, 1} : CANCTL0_INITRQ = m /\ CANCTL1_INITAK = m
    /\ cfg = [r \in CfgRegs |-> IF r \in NumericRegs THEN 0 ELSE "reset"]
    /\ CANRIER_RXFIE = 0
    /\ CANTFLG \in txflags
    /\ CANTBSEL = 0
    /\ txbuf = [b \in TxBits |-> EmptyTxBuffer]
    /\ CANRFLG_RXF = 0 /\ CANRXDLR_DLC = 0 /\ CANRXDSR = ZeroBuffer
    /\ rxbuffer = ZeroBuffer
    /\ data_available_flag = 0
    /\ intEnabled \in BOOLEAN
    /\ pc = "start" /\ id = 0 /\ frame = NoFrame /\ txbuffer = 0 /\ i = 0
    /\ message = ZeroBuffer /\ sendResult = <<>> /\ pollResult = <<>>
    /\ phase = "start"
    /\ isrpc = "idle" /\ length = 0 /\ isr_i = 0
    /\ frame0 = NoFrame /\ payloadReads = {} /\ calls = 0
    /\ rxlen = <<>> /\ isr_old = ZeroBuffer /\ oob = {} /\ unconsumed = 0

----------------------------------------------------------------------------
\* The whole driver: every function, the interrupt and the peripheral, with
\* the transmit buffers empty at start-up, one frame to send and few frames
\* to receive
Init == InitWith({AllTxEmpty})

Next ==
    \/ CANinit
    \/ CANsend(OneFrame, MaxCalls)
    \/ CANget
    \/ data_available
    \/ data_used
    \/ CANreceiveISR
    \/ HwInitAck \/ HwInitLeave \/ HwTxComplete
    \/ HwReceive(FewLengths, MaxFrames)

Spec == Init /\ [][Next]_vars

\* The receive path: CANinit, the mailbox functions and the interrupt, over
\* every length of RxLengths
NextRx ==
    \/ CANinit
    \/ CANget
    \/ data_available
    \/ data_used
    \/ CANreceiveISR
    \/ HwInitAck \/ HwInitLeave
    \/ HwReceive(RxLengths, MaxMsgs)

SpecRx == Init /\ [][NextRx]_vars

\* The transmit path: CANinit and CANsend over every frame of TxFrames, from
\* any start-up state of the transmit flags, with the receiver interrupt
\* preempting
InitTx == InitWith(0 .. AllTxEmpty)

NextTx ==
    \/ CANinit
    \/ CANsend(TxFrames, MaxSends)
    \/ CANreceiveISR
    \/ HwInitAck \/ HwInitLeave \/ HwTxComplete
    \/ HwReceive(FewLengths, MaxFrames)

SpecTx == InitTx /\ [][NextTx]_vars

\* The CPU runs on: a function that was called executes its next statement
\* (a wait loop whose condition is unmet has none), the start-up code calls
\* CANinit, and an interrupt that is pending and not masked is taken and its
\* handler runs to the end.  Whether the foreground calls CANsend, CANget,
\* data_available or data_used at all is left open.
FgStep ==
    \/ CANinit
    \/ SendSelect \/ SendSave \/ SendId \/ SendTruncate \/ SendCopy
    \/ SendLength \/ SendPriority \/ SendRelease \/ SendWait
    \/ GetCopy \/ GetEnable
    \/ UsedClear \/ UsedEnable

CpuFair == WF_vars(FgStep) /\ WF_vars(CANreceiveISR)

\* The whole driver on a CPU that runs on; the peripheral is left free to
\* answer or not
SpecFair == Init /\ [][Next]_vars /\ CpuFair

\* The peripheral answers: it acknowledges a standing request to enter or
\* leave initialization mode and it completes a released transmission
HwFair ==
    /\ WF_vars(HwInitAck) /\ WF_vars(HwInitLeave) /\ WF_vars(HwTxComplete)

----------------------------------------------------------------------------
\* Properties

\* CANget has copied all of rxbuffer and has not yet re-enabled interrupts
ReadDone == pc = "get_copy" /\ i = PAYLOAD_SIZE

\* The number of the last frame the handler has handled (handler not running)
Handled == IF CANRFLG_RXF = 1 THEN Len(rxlen) - 1 ELSE Len(rxlen)

\* The handler is not running and has run twice since the flag was cleared,
\* for two frames of length 0..8
TwoUnconsumed ==
    /\ isrpc = "idle" /\ unconsumed >= 2 /\ Handled >= 2
    /\ rxlen[Handled] <= PAYLOAD_SIZE /\ rxlen[Handled - 1] <= PAYLOAD_SIZE

\* CANinit has returned
InitReturned == pc \notin ({"start", "init_rq", "init_wait1", "init_exit",
                            "init_wait2", "init_rxfie"} \cup CfgPcs)

\* The acceptance filter holds what CANinit(id) programs
FilterProgrammed ==
    /\ cfg["IDAC"] = "MSCAN_ACC_4_16"
    /\ cfg["IDMR0"] = FilterMask(id)
    /\ cfg["IDAR0"] = FilterAcc(id)

\* CANsend has released the buffer it loaded, or has returned 0
Released == pc = "send_wait" \/ (pc = "idle" /\ sendResult = <<0>>)

\* min(length, 8)
Min8(n) == IF n < PAYLOAD_SIZE THEN n ELSE PAYLOAD_SIZE

\* C1 as stated: the buffer a completed CANget holds never contains bytes of
\* two different received frames.
C1_NeverMixed ==
    ReadDone =>
        \A a, b \in BufIdx :
            (Src(message[a]) # 0 /\ Src(message[b]) # 0)
                => Src(message[a]) = Src(message[b])

\* C1 amended: a completed CANget, however the interrupt interleaved with it,
\* holds no torn copy: a byte of an older frame never precedes a byte of a
\* newer frame; older bytes appear only behind the newer ones (the tail a
\* shorter frame leaves in place).
C1_NoTornRead ==
    ReadDone =>
        \A a, b \in BufIdx : a < b => Src(message[a]) >= Src(message[b])

\* C1 witness: a CANget has completed its copy of a received frame while a
\* second frame, which arrived during the copy, waits for the handler.
C1_Witness ==
    /\ ReadDone /\ CANRFLG_RXF = 1 /\ CANRIER_RXFIE = 1
    /\ Src(message[0]) = 1 /\ Len(rxlen) = 2

\* C2 as stated: after the handler ran twice without a data_used between,
\* for lengths L1, L2 in 0..8, no byte of the first of the two frames is
\* left in the mailbox.
C2_OnlySecond ==
    TwoUnconsumed => \A k \in BufIdx : Src(rxbuffer[k]) # Handled - 1

\* C2 amended: after the handler ran twice without a data_used between, for
\* lengths L1, L2 in 0..8, the mailbox holds the second frame's bytes at
\* 0..L2-1 and its earlier contents from L2 on: a byte of the first frame is
\* left exactly at the indices L2 <= k < L1, so none is left when L2 >= L1.
C2_SecondOverwritesPrefix ==
    TwoUnconsumed =>
        \A k \in BufIdx :
            /\ k < rxlen[Handled] => rxbuffer[k] = RxByte(Handled, k)
            /\ Src(rxbuffer[k]) = Handled - 1
                  <=> (rxlen[Handled] <= k /\ k < rxlen[Handled - 1])

\* C2 witness: two frames handled without a data_used between, the second
\* shorter than the first and not empty.
C2_Witness ==
    /\ TwoUnconsumed
    /\ 0 < rxlen[Handled] /\ rxlen[Handled] < rxlen[Handled - 1]

\* C3: when the handler has run for a frame of length L in 0..8,
\* data_available returns true, rxbuffer holds the receive data registers
\* 0..L-1 in order and, from L on, what it held when the handler was entered;
\* and a completed CANget holds rxbuffer.
C3_HandlerFillsMailbox ==
    /\ (isrpc = "isr_clr" /\ length <= PAYLOAD_SIZE) =>
          /\ DataAvailableValue = 1
          /\ \A k \in BufIdx :
                rxbuffer[k] = IF k < length THEN CANRXDSR[k] ELSE isr_old[k]
    /\ ReadDone => message = rxbuffer

\* C3 witness: the handler has run for a frame shorter than the mailbox
\* whose tail still holds a non-zero byte of an earlier frame.
C3_Witness ==
    /\ isrpc = "isr_clr" /\ 0 < length /\ length < PAYLOAD_SIZE
    /\ isr_old[length] # 0 /\ rxbuffer[length] = isr_old[length]

\* C4: a CANsend call made while all three TXE bits are 0 returns 1 in that
\* very step and writes no transmit register (every call of the transmit-path
\* specification is a CANsend call).
C4_FullRejected ==
    [][(pc = "idle" /\ CANTFLG = 0 /\ calls' = calls + 1)
          => (sendResult' = <<1>> /\ pc' = "idle" /\ UNCHANGED txvars)]_vars

\* C4 witness: CANsend has returned 1.
C4_Witness == sendResult = <<1>> /\ pc = "idle" /\ CANTFLG = 0

\* C5: for a frame with length > 8 and a free buffer, CANsend reads payload
\* elements 0..7 and no other, and once the copy is over the selected buffer
\* holds those 8 bytes and the length 8.
C5_LongFrameTruncated ==
    frame0.length > TxLenLimit =>
        /\ payloadReads \subseteq BufIdx
        /\ (pc \in {"send_rel", "send_wait"} \/ (pc = "idle" /\ sendResult = <<0>>)) =>
              /\ payloadReads = BufIdx
              /\ txbuf[txbuffer].dlr = TxLenLimit
              /\ \A k \in BufIdx : txbuf[txbuffer].dsr[k] = frame0.payload[k]

\* C5 witness: CANsend has returned 0 for a frame of length 255.
C5_Witness == pc = "idle" /\ sendResult = <<0>> /\ frame0.length = 255

\* C6: once CANsend has released the buffer, its data segment registers
\* 0..n-1, n = min(length, 8), hold payload[0..n) in order; and while CANsend
\* is still loading the buffer, the buffer's TXE bit is 1 (not released).
C6_PayloadLoadedBeforeRelease ==
    /\ Released =>
          \A k \in BufIdx :
              k < Min8(frame0.length) => txbuf[txbuffer].dsr[k] = frame0.payload[k]
    /\ pc \in {"send_id", "send_trunc", "send_copy", "send_prio", "send_rel"} =>
          (txbuffer \in TxBits /\ BitAnd(CANTFLG, txbuffer) = txbuffer)

\* C6 witness: the buffer loaded with the 3-byte frame is released and not
\* yet sent.
C6_Witness ==
    /\ pc = "send_wait" /\ frame0.length = 3
    /\ BitAnd(CANTFLG, txbuffer) = 0

\* C7 as stated: when CANsend has returned, the caller's frame is as it was
\* when CANsend was called.
C7_FrameUnchanged ==
    (pc = "idle" /\ sendResult # <<>>) => frame = frame0

\* C8: outside the handler the flag changes only in data_used's store, to 0,
\* and rxbuffer does not change at all; the handler returns with the flag 1;
\* the foreground does not run inside the handler; CANget copies rxbuffer[i]
\* whatever the flag is.
C8_FlagAndBufferWriters ==
    [][/\ (isrpc = "idle" /\ isrpc' = "idle") =>
              /\ rxbuffer' = rxbuffer
              /\ data_available_flag' # data_available_flag =>
                    (pc = "used_clr" /\ data_available_flag' = 0)
       /\ (isrpc = "idle" /\ isrpc' # "idle") =>
              UNCHANGED <<rxbuffer, data_available_flag>>
       /\ (isrpc # "idle" /\ isrpc' = "idle") => data_available_flag' = 1
       /\ isrpc # "idle" => UNCHANGED fgvars
       /\ (pc = "get_copy" /\ i' = i + 1) => message'[i] = rxbuffer[i]
      ]_vars

\* C8 witness: with the flag set and a frame in the mailbox, CANsend,
\* data_available and CANget have all returned and the flag is still set.
C8_Witness ==
    /\ pc = "idle" /\ isrpc = "idle" /\ calls = 3
    /\ sendResult = <<0>> /\ pollResult = <<1>>
    /\ message = rxbuffer /\ rxbuffer # ZeroBuffer
    /\ data_available_flag = 1

\* C9: while the handler has not run since data_used cleared the flag, or
\* since start-up, data_available returns 0; a data_available call that
\* returned 1 was preceded by a handler run with no data_used between.
C9_ConsumedThenEmpty ==
    /\ (isrpc = "idle" /\ unconsumed = 0) => DataAvailableValue = 0
    /\ pollResult = <<1>> => unconsumed >= 1

\* C9 witness: after a frame was handled, data_used has returned and a later
\* data_available call returned 0.
C9_Witness ==
    /\ pc = "idle" /\ isrpc = "idle"
    /\ Handled >= 1 /\ unconsumed = 0 /\ pollResult = <<0>>

\* C10: CANinit writes the timing and filter registers only while the
\* hardware acknowledges init mode and the request stands; it sets RXFIE
\* only after the hardware has left init mode; once it has returned the
\* controller is in normal mode with RXFIE set; and the handler runs only
\* with the filter programmed.
C10_InitProtocol ==
    /\ pc \in CfgPcs \cup {"init_exit"} =>
          (CANCTL0_INITRQ = 1 /\ CANCTL1_INITAK = 1)
    /\ pc = "init_rxfie" => (CANCTL0_INITRQ = 0 /\ CANCTL1_INITAK = 0)
    /\ CANRIER_RXFIE = 1 => (InitReturned /\ FilterProgrammed)
    /\ InitReturned => (NormalMode /\ CANRIER_RXFIE = 1 /\ FilterProgrammed)
    /\ isrpc # "idle" => (InitReturned /\ FilterProgrammed)

\* C10 witness: CANinit has returned and the handler is running.
C10_Witness == InitReturned /\ isrpc = "isr_copy" /\ id = 2047

----------------------------------------------------------------------------
\* Every identifier a standard frame on the bus can carry
IncomingIds == 0 .. 2047

\* C11 as stated: once CANinit(id) has returned, the acceptance filter it
\* programmed admits, of all 11-bit identifiers, none but id.
C11_OnlyFilterIdAdmitted ==
    InitReturned => \A rid \in IncomingIds : Accepts(rid) => rid = id

\* C12: when CANsend has returned 0 for a frame with an 11-bit identifier,
\* the identifier registers of the buffer it selected hold id << 5 in the
\* high 16-bit word and 0 in the low word (id << 21 as a 32-bit value), the
\* length register holds min(length, 8) and the priority register holds the
\* frame's priority.
C12_RegistersAfterSend ==
    (pc = "idle" /\ sendResult = <<0>>) =>
        /\ txbuffer \in TxBits
        /\ txbuf[txbuffer].idr[1] = frame0.id * 32
        /\ txbuf[txbuffer].idr[2] = 0
        /\ txbuf[txbuffer].dlr = Min8(frame0.length)
        /\ txbuf[txbuffer].tbpr = frame0.priority

\* C12 witness: CANsend has returned 0 for the frame {id 0x123, payload
\* [1,2,3], length 3, priority 0}: the buffer holds 0x123 << 5 = 0x2460,
\* length 3 and the bytes 1, 2, 3 in its first three data registers.
C12_Witness ==
    /\ pc = "idle" /\ sendResult = <<0>>
    /\ frame0.id = 291 /\ frame0.length = 3 /\ frame0.priority = 0
    /\ txbuf[txbuffer].idr = <<9312, 0>>
    /\ txbuf[txbuffer].dlr = 3
    /\ \A k \in 0 .. 2 : txbuf[txbuffer].dsr[k] = k + 1

\* C13: between CANget's DisableInterrupts and EnableInterrupts the I mask
\* is set and the handler does not execute, whether or not a frame has
\* arrived meanwhile; the bytes copied so far equal the mailbox as it is now,
\* so the 8 bytes of a completed copy are the mailbox at one instant.
C13_AtomicSnapshot ==
    pc = "get_copy" =>
        /\ ~intEnabled
        /\ isrpc = "idle"
        /\ \A k \in BufIdx : k < i => message[k] = rxbuffer[k]

\* C13 witness: CANget is half-way through its copy of the first frame and
\* a second frame has arrived and waits for the handler.
C13_Witness ==
    /\ pc = "get_copy" /\ i = 4
    /\ CANRFLG_RXF = 1 /\ CANRIER_RXFIE = 1 /\ Len(rxlen) = 2
    /\ Src(message[0]) = 1 /\ Src(rxbuffer[7]) = 1

\* The handler is between its entry and its return
InHandler == isrpc \in {"isr_len", "isr_copy", "isr_flag", "isr_clr"}

\* C14: while the handler runs, RXF stays set, so the receive buffer is not
\* released while it is being copied; the handler's store of 1 to the flag
\* comes after the copy loop has stored all `length` bytes (the mailbox then
\* holds the receive data registers at every index below length); and before
\* that store, for a frame of length 0..8 arriving with the flag clear, the
\* flag is still clear.
C14_HandlerOrder ==
    /\ InHandler => CANRFLG_RXF = 1
    /\ isrpc = "isr_copy" => isr_i <= length
    /\ isrpc \in {"isr_flag", "isr_clr"} =>
          /\ isr_i = length
          /\ \A k \in BufIdx : k < length => rxbuffer[k] = CANRXDSR[k]
    /\ (isrpc \in {"isr_len", "isr_copy", "isr_flag"} /\ unconsumed = 0
            /\ CANRXDLR_DLC <= PAYLOAD_SIZE)
          => data_available_flag = 0
    /\ isrpc = "isr_clr" => data_available_flag = RaisedFlag

\* C14 witness: the handler has stored the five bytes of a frame and then
\* the flag, and has not yet cleared RXF.
C14_Witness ==
    /\ isrpc = "isr_clr" /\ length = 5 /\ isr_i = 5
    /\ CANRFLG_RXF = 1 /\ data_available_flag = 1
    /\ rxbuffer[4] = CANRXDSR[4] /\ rxbuffer[4] # 0

\* C15: step by step through CANsend: the selection picks a buffer whose TXE
\* bit is 1; every write to a transmit buffer goes to the selected buffer
\* while its TXE bit is still 1; at the release the buffer holds the
\* identifier, payload[0..min(length,8)), the length and the priority, and
\* the release clears that buffer's TXE bit and no other; and the step that
\* returns 0 is taken in a state where that bit is 1 again.
C15_SendSteps ==
    [][/\ (pc = "send_sel" /\ pc' = "send_save") =>
              (CANTBSEL' \in TxBits /\ BitAnd(CANTFLG, CANTBSEL') = CANTBSEL')
       /\ \A b \in TxBits :
              txbuf'[b] # txbuf[b] =>
                  /\ pc \in {"send_id", "send_copy", "send_prio"}
                  /\ b = txbuffer
                  /\ BitAnd(CANTFLG, b) = b
       /\ (pc = "send_rel" /\ pc' = "send_wait") =>
              /\ txbuf[txbuffer].idr = <<frame0.id * 32, 0>>
              /\ \A k \in BufIdx :
                    k < Min8(frame0.length)
                        => txbuf[txbuffer].dsr[k] = frame0.payload[k]
              /\ txbuf[txbuffer].dlr = Min8(frame0.length)
              /\ txbuf[txbuffer].tbpr = frame0.priority
              /\ BitAnd(CANTFLG, txbuffer) = txbuffer
              /\ CANTFLG' = CANTFLG - txbuffer
       /\ (sendResult # <<0>> /\ sendResult' = <<0>>) =>
              /\ pc = "send_wait" /\ pc' = "idle"
              /\ txbuffer \in TxBits
              /\ BitAnd(CANTFLG', txbuffer) = txbuffer
      ]_vars

\* C15 witness: CANsend has returned 0 after loading and releasing the
\* second transmit buffer, the first having been occupied all along.
C15_Witness ==
    /\ pc = "idle" /\ sendResult = <<0>>
    /\ txbuffer = 2 /\ BitAnd(CANTFLG, 1) = 0 /\ BitAnd(CANTFLG, 2) = 2
    /\ txbuf[2].dlr = TxLenLimit /\ txbuf[1] = EmptyTxBuffer

\* The foreground is in one of the three wait loops and the loop's condition
\* is not met
Spinning ==
    \/ pc = "init_wait1" /\ ~InitAcked
    \/ pc = "init_wait2" /\ ~InitLeft
    \/ pc = "send_wait" /\ ~TxDone

\* C16: on a CPU that runs on, (1) a driver function that is executing
\* returns or ends up spinning for ever in a wait loop whose condition the
\* hardware does not meet; (2) if the hardware acknowledges init-mode entry
\* and exit and completes released transmissions, every function returns;
\* (3) while a wait loop's condition is unmet no step leaves the loop, sets a
\* status or sets RXFIE, and RXFIE is 0 in both wait loops of CANinit.
C16_BusyWaitsOnly ==
    /\ [](pc # "idle" => (<>(pc = "idle") \/ <>[]Spinning))
    /\ (HwFair => [](pc # "idle" => <>(pc = "idle")))
    /\ [][Spinning =>
            /\ pc' = pc
            /\ sendResult' = sendResult
            /\ CANRIER_RXFIE' = CANRIER_RXFIE]_vars
    /\ [](pc \in {"init_wait1", "init_wait2"} => CANRIER_RXFIE = 0)

\* C16 witness: CANinit has returned and CANsend spins in its wait loop, the
\* released buffer not yet sent, while the handler has handled a frame.
C16_Witness ==
    /\ Spinning /\ pc = "send_wait" /\ isrpc = "idle"
    /\ CANRIER_RXFIE = 1 /\ Handled = 1

\* C17 as stated: for every DLC 0..15 the handler copies at most
\* PAYLOAD_SIZE bytes and stores nothing outside rxbuffer[0..PAYLOAD_SIZE-1].
C17_WritesInsideMailbox ==
    /\ oob = {}
    /\ InHandler => isr_i <= PAYLOAD_SIZE

\* C18 as stated: the foreground has followed the cycle (data_available
\* until it returned 1, then CANget, then data_used, which has returned),
\* and every frame received had a length 0..8.  If the flag is 0 and the
\* handler is not running, rxbuffer holds the message CANget returned: no
\* frame the handler stored is left unread with the flag clear.
C18_NothingUnreadWhenFlagClear ==
    (/\ phase = "consumed" /\ pc = "idle" /\ isrpc = "idle"
     /\ \A n \in 1 .. Len(rxlen) : rxlen[n] <= PAYLOAD_SIZE
     /\ data_available_flag = 0)
        => rxbuffer = message

\* The number of transmit buffers whose TXE bit is 0
Occupied == Cardinality({b \in TxBits : BitAnd(CANTFLG, b) = 0})

\* CANsend is executing
InSend == pc \in {"send_sel", "send_save", "send_id", "send_trunc", "send_copy",
                  "send_prio", "send_rel", "send_wait"}

\* C19: with all three transmit buffers empty at start-up, at most one
\* buffer is occupied at any time and it is the one the running CANsend has
\* released; all are empty whenever CANsend is not executing; and CANsend
\* never returns 1.
C19_OneBufferInFlight ==
    /\ Occupied <= 1
    /\ Occupied = 1 => (pc = "send_wait" /\ BitAnd(CANTFLG, txbuffer) = 0)
    /\ ~InSend => CANTFLG = AllTxEmpty
    /\ sendResult # <<1>>

\* C19 witness: a second CANsend has released its buffer, the only one
\* occupied, after the first CANsend returned.
C19_Witness ==
    /\ pc = "send_wait" /\ calls = 2 /\ pollResult = <<>> /\ phase = "start"
    /\ Occupied = 1 /\ txbuf[1].dlr = TxLenLimit

\* CANinit has returned and a received frame waits in the receive buffer
FramePending == InitReturned /\ CANRFLG_RXF = 1

\* The foreground is between DisableInterrupts and the return of CANget or
\* data_used
InCritical == pc \in {"get_copy", "used_clr", "used_ei"}

\* C20 as stated: once CANinit has returned, every frame for which RXF is
\* raised is eventually handled: the handler runs and stores 1 to the flag.
C20_EveryFrameHandled ==
    [](FramePending => <>(isrpc = "isr_clr"))

\* C20 amended: once CANinit has returned, a frame for which RXF is raised
\* is eventually handled if the I mask is clear or the foreground is inside
\* CANget or data_used, which end by clearing it; this holds also while
\* CANsend spins in its wait loop.
C20_HandledOnceUnmasked ==
    []((FramePending /\ (intEnabled \/ InCritical)) => <>(isrpc = "isr_clr"))

\* C20 witness: the handler has stored the flag for a frame while CANsend
\* spins in its wait loop.
C20_Witness ==
    /\ isrpc = "isr_clr" /\ pc = "send_wait" /\ ~TxDone
    /\ Len(rxlen) = 1 /\ data_available_flag = 1

====
